---- MODULE Spec2Model ----
(***************************************************************************)
(* routelit-flask: the Flask adapter of the RouteLit UI framework.         *)
(*                                                                         *)
(* The model follows src/src/routelit_flask: the adapter's constructor,    *)
(* configure(), the GET path, response() and stream_response(), the        *)
(* request wrapper FlaskRLRequest, and the JSON provider                   *)
(* CustomJSONProvider.  Flask, Jinja and RouteLit are the                  *)
(* collaborators: their calls are recorded, in order, in the trace of the  *)
(* handler that makes them, and the values they return are drawn from      *)
(* small sets.                                                             *)
(*                                                                         *)
(* Python values: an Optional[X] is the set None = {} or Some(x) = {x};    *)
(* a dict is a function from its keys; a raised exception is an outcome    *)
(* [kind |-> "raise", exc |-> ...] of the operation that raises it.        *)
(***************************************************************************)
EXTENDS Integers, Sequences, FiniteSets, TLC

VARIABLES
    ctor,       \* the keyword arguments RouteLitFlaskAdapter(...) was built with
    adapter,    \* the RouteLitFlaskAdapter instance (its attributes)
    routelit,   \* the RouteLit instance handed to the adapter
    app,        \* the Flask application configure() works on
    uuids,      \* how many uuid4 values have been drawn so far
    configures, \* how many times configure() has been called
    rlreq,      \* the FlaskRLRequest built last (None before the first)
    last        \* the last operation: its inputs, its trace of calls, its outcome

vars == <<ctor, adapter, routelit, app, uuids, configures, rlreq, last>>

----------------------------------------------------------------------------
(* Bounds of the model *)

\* requests handled (each draws at most one uuid4)
MaxRequests == 2
\* calls of configure() on the application
MaxConfigure == 2

----------------------------------------------------------------------------
(* Python values *)

None == {}
Some(x) == {x}
The(o) == CHOOSE x \in o : TRUE

EmptyDict == [k \in {} |-> TRUE]

\* dict.get(key, default)
DictGet(d, key, default) == IF key \in DOMAIN d THEN d[key] ELSE default

\* `x or y` for an Optional[dict] x: None and the empty dict are falsy
OrDict(x, y) == IF x = None \/ The(x) = EmptyDict THEN y ELSE The(x)

\* `x or y` for an Optional[str] x: None and the empty string are falsy
OrStr(x, y) == IF x = None \/ The(x) = "" THEN y ELSE The(x)

Returned(v) == [kind |-> "return", value |-> v]
Raised(e) == [kind |-> "raise", exc |-> e]

----------------------------------------------------------------------------
(* utils.py *)

get_default_static_path == "routelit/static"

get_default_template_path == "routelit/templates"

\* The names the module routelit_flask.utils binds, with their values
\* (`resources` is the imported module, the other two are its functions).
utils_module ==
    [ resources                 |-> "importlib.resources",
      get_default_static_path   |-> "get_default_static_path",
      get_default_template_path |-> "get_default_template_path" ]

\* `from <module> import <name>`: the value bound to the name in the module,
\* an ImportError when the module binds no such name.
import_from(module, name) ==
    IF name \in DOMAIN module THEN Returned(module[name]) ELSE Raised("ImportError")

----------------------------------------------------------------------------
(* adapter.py: constants and the constructor *)

production_cookie_config ==
    [secure |-> TRUE, samesite |-> "none", httponly |-> TRUE, max_age |-> 60 * 60 * 24 * 1]

RunMode == {"prod", "dev_client", "dev_components"}

\* the production policy given to the development modes too
cookie_config_dev_gets_production(cookie_config, run_mode) ==
    OrDict(cookie_config, production_cookie_config)

\* `cookie_config or production_cookie_config if run_mode == "prod" else {}`:
\* a conditional expression binds weaker than `or`, so the expression is
\* `(cookie_config or production_cookie_config) if run_mode == "prod" else {}`.
cookie_config_of(cookie_config, run_mode) ==
    IF run_mode = "prod"
    THEN OrDict(cookie_config, production_cookie_config)
    ELSE EmptyDict

RouteLitFlaskAdapter__init__(kw) ==
    [ static_path             |-> OrStr(kw.static_path, get_default_static_path),
      template_path           |-> kw.template_path,
      run_mode                |-> kw.run_mode,
      local_frontend_server   |-> kw.local_frontend_server,
      local_components_server |-> kw.local_components_server,
      cookie_config           |-> cookie_config_of(kw.cookie_config, kw.run_mode) ]

\* The cookie configurations a caller passes in the model.
CustomCookieConfigs ==
    { [secure |-> FALSE, samesite |-> "lax", httponly |-> FALSE, max_age |-> 3600],
      [samesite |-> "strict"] }

\* The paths and development servers a caller passes in the model.
CtorPaths ==
    { [ static_path |-> None, template_path |-> get_default_template_path,
        local_frontend_server |-> None, local_components_server |-> None ],
      [ static_path |-> Some("/custom/static"), template_path |-> "/custom/templates",
        local_frontend_server |-> Some("http://localhost:3000"),
        local_components_server |-> Some("http://localhost:3001") ] }

CtorArgs ==
    { [ static_path             |-> p.static_path,
        template_path           |-> p.template_path,
        run_mode                |-> m,
        local_frontend_server   |-> p.local_frontend_server,
        local_components_server |-> p.local_components_server,
        cookie_config           |-> c ] :
      p \in CtorPaths, m \in RunMode,
      c \in {None, Some(EmptyDict)} \cup {Some(x) : x \in CustomCookieConfigs} }

----------------------------------------------------------------------------
(* The Flask application and its Jinja loaders, as configure() uses them *)

FileSystemLoader(searchpath) == [cls |-> "FileSystemLoader", searchpath |-> searchpath]

ChoiceLoader(oid, loaders) == [cls |-> "ChoiceLoader", oid |-> oid, loaders |-> loaders]

\* flask_app.jinja_loader of an application without a template folder
NoLoader == [cls |-> "NoneType", searchpath |-> ""]

AppLoader == FileSystemLoader("app/templates")

OtherLoader == [cls |-> "DictLoader", searchpath |-> "dict"]

\* A Flask application as construction leaves it: the static route of Flask
\* itself, the default JSON provider, and the loader given.
FlaskApp(loader) ==
    [ json_provider_class |-> "DefaultJSONProvider",
      url_map             |-> << [rule |-> "/static/<path:filename>", endpoint |-> "static"] >>,
      view_functions      |-> ("static" :> "app/static"),
      jinja_loader        |-> loader ]

\* Flask.add_url_rule(rule, endpoint=..., view_func=...): the rule joins the
\* URL map, then an endpoint that already has another view function is
\* refused.  A view function `lambda filename: send_from_directory(d, filename)`
\* is a new object at every call and is modelled by the directory d it serves.
add_url_rule(flask_app, rule, endpoint, directory) ==
    LET added == [flask_app EXCEPT !.url_map = Append(@, [rule |-> rule, endpoint |-> endpoint])]
    IN  IF endpoint \in DOMAIN flask_app.view_functions
        THEN [app |-> added, outcome |-> Raised("AssertionError")]
        ELSE [app     |-> [added EXCEPT !.view_functions = @ @@ (endpoint :> directory)],
              outcome |-> Returned(None)]

\* resources.files(package_name).joinpath(path), as the string str() gives
resource_path(package_name, path) == package_name \o "/" \o path

\* the route of every asset target registered under the same rule
configure_static_assets_same_rule(flask_app, asset_target) ==
    LET package_name == asset_target.package_name
        path         == asset_target.path
        assets_path  == resource_path(package_name, path)
    IN  add_url_rule(flask_app,
                     "/routelit/<path:filename>",
                     "assets_static_" \o package_name,
                     assets_path)

\* the route serving the root of the package, the target's path left out
configure_static_assets_package_root(flask_app, asset_target) ==
    LET package_name == asset_target.package_name
        assets_path  == package_name
    IN  add_url_rule(flask_app,
                     "/routelit/" \o package_name \o "/<path:filename>",
                     "assets_static_" \o package_name,
                     assets_path)

configure_static_assets(flask_app, asset_target) ==
    LET package_name == asset_target.package_name
        path         == asset_target.path
        assets_path  == resource_path(package_name, path)
    IN  add_url_rule(flask_app,
                     "/routelit/" \o package_name \o "/<path:filename>",
                     "assets_static_" \o package_name,
                     assets_path)

\* The loop `for static_path in ...get_client_resource_paths()`: the first
\* call that raises ends it.
RECURSIVE configure_targets(_, _)
configure_targets(flask_app, targets) ==
    IF targets = <<>>
    THEN [app |-> flask_app, outcome |-> Returned(None)]
    ELSE LET r == configure_static_assets(flask_app, Head(targets))
         IN  IF r.outcome.kind = "raise" THEN r ELSE configure_targets(r.app, Tail(targets))

\* the RouteLit loader put before the loaders of the application
configure_jinja_loader_first(self, flask_app) ==
    LET current_loader == flask_app.jinja_loader
    IN  IF current_loader.cls = "ChoiceLoader"
        THEN [flask_app EXCEPT !.jinja_loader.loaders = <<FileSystemLoader(self.template_path)>> \o @]
        ELSE [flask_app EXCEPT !.jinja_loader =
                 ChoiceLoader("routelit", <<FileSystemLoader(self.template_path), current_loader>>)]

\* The template loader step of configure(): append to a ChoiceLoader, or wrap.
configure_jinja_loader(self, flask_app) ==
    LET current_loader == flask_app.jinja_loader
    IN  IF current_loader.cls = "ChoiceLoader"
        THEN [flask_app EXCEPT !.jinja_loader.loaders = Append(@, FileSystemLoader(self.template_path))]
        ELSE [flask_app EXCEPT !.jinja_loader =
                 ChoiceLoader("routelit", <<current_loader, FileSystemLoader(self.template_path)>>)]

\* the JSON provider of the application left as it was
set_json_provider_class_skipped(flask_app) == flask_app

\* flask_app.json_provider_class = CustomJSONProvider
set_json_provider_class(flask_app) ==
    [flask_app EXCEPT !.json_provider_class = "CustomJSONProvider"]

configure(self, rl, flask_app) ==
    LET app1 == set_json_provider_class(flask_app)
        r2  == configure_targets(app1, rl.client_resource_paths)
        r3   == add_url_rule(r2.app, "/routelit/assets/<path:filename>",
                             "routelit_assets_static", self.static_path \o "/assets")
    IN  IF r2.outcome.kind = "raise" THEN r2
        ELSE IF r3.outcome.kind = "raise" THEN r3
        ELSE [app |-> configure_jinja_loader(self, r3.app), outcome |-> Returned(self)]

----------------------------------------------------------------------------
(* The RouteLit instance: what the adapter asks of it *)

Package1 == [package_name |-> "package1", path |-> "static/assets1"]

Package2 == [package_name |-> "package2", path |-> "static/assets2"]

\* a second bundle of package1: the same package name as Package1
Package1Other == [package_name |-> "package1", path |-> "static/other"]

\* a package whose name is that of the client bundle's route
PackageAssets == [package_name |-> "assets", path |-> "dist"]

\* The applications of the model: what get_client_resource_paths() of the
\* builder class returns, and the loader the Flask application starts with.
Deployments ==
    { [paths |-> <<>>,                                   loader |-> AppLoader],
      [paths |-> <<Package1>>,                           loader |-> NoLoader],
      [paths |-> <<Package1, Package2>>,                 loader |-> ChoiceLoader("app", <<AppLoader>>)],
      [paths |-> <<Package2, PackageAssets, Package1>>,
       loader |-> ChoiceLoader("app", <<OtherLoader, AppLoader>>)],
      [paths |-> <<Package1, Package1Other>>,            loader |-> AppLoader] }

RouteLit(paths) ==
    [ client_resource_paths |-> paths,
      default_client_assets |-> "default_assets",
      client_assets         |-> "client_assets" ]

----------------------------------------------------------------------------
(* request.py: FlaskRLRequest *)

\* request.py line 7, `from .utils import COOKIE_SESSION_KEY`: the name as
\* routelit_flask.utils binds it.  utils.py binds no such name, so the import
\* raises; the model lets the failure surface where the name is used.
request_COOKIE_SESSION_KEY == import_from(utils_module, "COOKIE_SESSION_KEY")

\* str(uuid.uuid4()): the n-th value drawn, different from every other one
uuid4(n) == "uuid4-" \o ToString(n)

\* The HTTP requests of the model, as Flask presents them: the method, the
\* cookie dict, is_json, and the parsed JSON body (an object) of a JSON request.
SessionCookie == ("ROUTELIT_SESSION_ID" :> "existing_session_id")

OtherCookie == ("theme" :> "dark")

FlaskRequests ==
    { [method |-> "GET",  cookies |-> EmptyDict,     is_json |-> FALSE, json |-> None],
      [method |-> "GET",  cookies |-> SessionCookie, is_json |-> FALSE, json |-> None],
      [method |-> "HEAD", cookies |-> OtherCookie,   is_json |-> TRUE,
       json |-> Some(("key" :> "value"))],
      [method |-> "POST", cookies |-> SessionCookie, is_json |-> TRUE,
       json |-> Some(("ui_event" :> "click") @@ ("key" :> "value"))],
      [method |-> "POST", cookies |-> EmptyDict,     is_json |-> FALSE, json |-> None] }

\* `request.json` of the Flask request: the parsed body of a JSON request.
\* Flask refuses to parse the body of a request that is not JSON.
request_json(request) ==
    IF request.is_json THEN Returned(The(request.json)) ELSE Raised("UnsupportedMediaType")

\* body.get("ui_event") of a parsed body
body_ui_event(body) == IF "ui_event" \in DOMAIN body THEN Some(body["ui_event"]) ELSE None

\* the body read whether or not the request is JSON
_get_ui_event_reads_any_body(request) ==
    LET body == request_json(request)
    IN  IF body.kind = "raise" THEN body ELSE Returned(body_ui_event(body.value))

_get_ui_event(request) ==
    IF request.is_json
    THEN LET body == request_json(request)
         IN  IF body.kind = "raise" THEN body ELSE Returned(body_ui_event(body.value))
    ELSE Returned(None)

\* FlaskRLRequest(request): the object built, or what _get_ui_event raised;
\* uuid is the value str(uuid.uuid4()) gives.
FlaskRLRequest__init__(request, uuid) ==
    LET event == _get_ui_event(request)
    IN  IF event.kind = "raise" THEN event
        ELSE Returned([ cls                |-> "FlaskRLRequest",
                        request            |-> request,
                        default_session_id |-> uuid,
                        ui_event           |-> event.value ])

method(self) == self.request.method

is_json(self) == self.request.is_json

get_json(self) ==
    IF is_json(self) THEN request_json(self.request) ELSE Returned(None)

get_ui_event(self) == self.ui_event

\* clear_event() leaving the event in place
clear_event_keeps_event(self) == self

clear_event(self) == [self EXCEPT !.ui_event = None]

FlaskRLRequest_get_session_id(self) ==
    LET key == request_COOKIE_SESSION_KEY
    IN  IF key.kind = "raise" THEN key
        ELSE Returned(DictGet(self.request.cookies, key.value, self.default_session_id))

\* Another RouteLitRequest handed to _handle_get_request directly (the
\* method takes any request object): its get_session_id() returns a fixed id.
OtherRLRequests ==
    { [cls |-> "RouteLitRequest", session_id |-> "test_session_id"],
      [cls |-> "RouteLitRequest", session_id |-> "other_session_id"] }

\* request.get_session_id() on either kind of request object
get_session_id(request) ==
    IF request.cls = "FlaskRLRequest"
    THEN FlaskRLRequest_get_session_id(request)
    ELSE Returned(request.session_id)

----------------------------------------------------------------------------
(* adapter.py: the GET path, response() and stream_response() *)

\* adapter.py line 17, `from routelit import COOKIE_SESSION_KEY`
COOKIE_SESSION_KEY == "ROUTELIT_SESSION_ID"

\* What the RouteLit library returns to one handler call: the response of
\* handle_get_request, the actions of handle_post_request, the generator of
\* handle_post_request_stream_jsonl.
RouteLitReturns ==
    { [ get    |-> [elements |-> "json_elements",
                    head |-> [title |-> "Test Title", description |-> "Test Description"]],
        post   |-> <<"action1", "action2">>,
        stream |-> "jsonl_generator_1" ],
      [ get    |-> [elements |-> "[]",
                    head |-> [title |-> "Home", description |-> ""]],
        post   |-> <<>>,
        stream |-> "jsonl_generator_2" ] }

\* The arguments a view passes to response() / stream_response().
CallArgs ==
    { [view_fn |-> "view", should_inject_builder |-> None, args |-> <<>>, kwargs |-> EmptyDict],
      [view_fn |-> "other_view", should_inject_builder |-> Some(TRUE), args |-> <<"arg1", "arg2">>,
       kwargs |-> ("kwarg1" :> "value1")] }

\* render_template(template, **context), as the page it renders
render_template(template, context) == [template |-> template, context |-> context]

\* the page title and the page description taken from each other's place
template_context_swaps_title(self, rl, rl_response) ==
    [ ROUTELIT_DATA           |-> rl_response.elements,
      PAGE_TITLE              |-> rl_response.head.description,
      PAGE_DESCRIPTION        |-> rl_response.head.title,
      RUN_MODE                |-> self.run_mode,
      LOCAL_FRONTEND_SERVER   |-> self.local_frontend_server,
      LOCAL_COMPONENTS_SERVER |-> self.local_components_server,
      default_vite_assets     |-> rl.default_client_assets,
      vite_assets             |-> rl.client_assets ]

\* The keyword arguments of the render_template call (adapter.py lines 136-143).
template_context(self, rl, rl_response) ==
    [ ROUTELIT_DATA           |-> rl_response.elements,
      PAGE_TITLE              |-> rl_response.head.title,
      PAGE_DESCRIPTION        |-> rl_response.head.description,
      RUN_MODE                |-> self.run_mode,
      LOCAL_FRONTEND_SERVER   |-> self.local_frontend_server,
      LOCAL_COMPONENTS_SERVER |-> self.local_components_server,
      default_vite_assets     |-> rl.default_client_assets,
      vite_assets             |-> rl.client_assets ]

\* set_cookie given the production policy whatever the adapter's cookie_config is
session_cookie_production_attrs(self, session_id) ==
    [key |-> COOKIE_SESSION_KEY, value |-> session_id, attrs |-> production_cookie_config]

\* The arguments of response.set_cookie (adapter.py line 146), given the
\* value request.get_session_id() returned.
session_cookie(self, session_id) ==
    [key |-> COOKIE_SESSION_KEY, value |-> session_id, attrs |-> self.cookie_config]

_handle_get_request(self, rl, view_fn, request, kwargs, ret) ==
    LET rl_response == ret.get
        context == template_context(self, rl, rl_response)
        page == render_template("index.html", context)
        rendered ==
            << [fn |-> "routelit.handle_get_request", view_fn |-> view_fn,
                request |-> request, kwargs |-> kwargs],
               [fn |-> "render_template", template |-> page.template, context |-> page.context],
               [fn |-> "make_response", page |-> page] >>
        session_id == get_session_id(request)
    IN  IF session_id.kind = "raise"
        THEN [calls |-> rendered, outcome |-> session_id]
        ELSE LET cookie == session_cookie(self, session_id.value)
             IN  [ calls   |-> Append(rendered,
                                 [fn |-> "response.set_cookie", key |-> cookie.key,
                                  value |-> cookie.value, attrs |-> cookie.attrs]),
                   outcome |-> Returned([cls |-> "Response", page |-> page,
                                         set_cookies |-> <<cookie>>]) ]

\* `req = FlaskRLRequest(request)`, the first statement of both entry points
wrap_request(flask_request) == << [fn |-> "FlaskRLRequest", flask_request |-> flask_request] >>

\* the GET path entered without the keyword arguments of the view's call
get_branch_drops_kwargs(self, rl, req, a, ret) ==
    LET get == _handle_get_request(self, rl, a.view_fn, req, EmptyDict, ret)
    IN  [ calls   |-> << [fn |-> "_handle_get_request", view_fn |-> a.view_fn,
                          request |-> req, kwargs |-> EmptyDict] >> \o get.calls,
          outcome |-> get.outcome ]

\* The else branch of both entry points: `return self._handle_get_request(view_fn, req, **kwargs)`
get_branch(self, rl, req, a, ret) ==
    LET get == _handle_get_request(self, rl, a.view_fn, req, a.kwargs, ret)
    IN  [ calls   |-> << [fn |-> "_handle_get_request", view_fn |-> a.view_fn,
                          request |-> req, kwargs |-> a.kwargs] >> \o get.calls,
          outcome |-> get.outcome ]

\* handle_post_request called without the positional arguments
post_branch_drops_args(self, rl, req, a, ret) ==
    LET actions == ret.post
    IN  [ calls   |-> << [fn |-> "routelit.handle_post_request", view_fn |-> a.view_fn,
                          request |-> req, should_inject_builder |-> a.should_inject_builder,
                          args |-> <<>>, kwargs |-> a.kwargs],
                         [fn |-> "jsonify", actions |-> actions] >>,
          outcome |-> Returned([cls |-> "Response", json |-> actions]) ]

\* The POST branch of response(): handle_post_request, then jsonify
post_branch(self, rl, req, a, ret) ==
    LET actions == ret.post
    IN  [ calls   |-> << [fn |-> "routelit.handle_post_request", view_fn |-> a.view_fn,
                          request |-> req, should_inject_builder |-> a.should_inject_builder,
                          args |-> a.args, kwargs |-> a.kwargs],
                         [fn |-> "jsonify", actions |-> actions] >>,
          outcome |-> Returned([cls |-> "Response", json |-> actions]) ]

\* the GET path taken for GET alone, every other method handled as a POST
response_post_unless_get(self, rl, flask_request, a, uuid, ret) ==
    LET built == FlaskRLRequest__init__(flask_request, uuid)
        req == built.value
        branch == IF method(req) = "GET"
                  THEN get_branch(self, rl, req, a, ret)
                  ELSE post_branch(self, rl, req, a, ret)
    IN  IF built.kind = "raise"
        THEN [calls |-> wrap_request(flask_request), outcome |-> built]
        ELSE [calls |-> wrap_request(flask_request) \o branch.calls, outcome |-> branch.outcome]

response(self, rl, flask_request, a, uuid, ret) ==
    LET built == FlaskRLRequest__init__(flask_request, uuid)
        req == built.value
        branch == IF method(req) = "POST"
                  THEN post_branch(self, rl, req, a, ret)
                  ELSE get_branch(self, rl, req, a, ret)
    IN  IF built.kind = "raise"
        THEN [calls |-> wrap_request(flask_request), outcome |-> built]
        ELSE [calls |-> wrap_request(flask_request) \o branch.calls, outcome |-> branch.outcome]

\* the header left as the constructor's mimetype set it
stream_headers_mimetype_wins(mimetype) ==
    ("Content-Type" :> (mimetype \o "; charset=utf-8"))

\* Response(stream, mimetype=...) gives the header Content-Type the mimetype
\* (Flask names the charset of a text/* type); the assignment
\* resp.headers["Content-Type"] = "application/jsonlines" then replaces it.
stream_headers(mimetype) ==
    [("Content-Type" :> (mimetype \o "; charset=utf-8")) EXCEPT
        !["Content-Type"] = "application/jsonlines"]

\* The POST branch of stream_response()
stream_branch(self, rl, req, a, ret) ==
    LET generator == ret.stream
    IN  [ calls   |-> << [fn |-> "routelit.handle_post_request_stream_jsonl",
                          view_fn |-> a.view_fn, request |-> req,
                          should_inject_builder |-> a.should_inject_builder,
                          args |-> a.args, kwargs |-> a.kwargs],
                         [fn |-> "stream_with_context", generator |-> generator],
                         [fn |-> "Response", stream |-> generator,
                          mimetype |-> "text/event-stream"] >>,
          outcome |-> Returned([cls |-> "Response", stream |-> generator,
                                headers |-> stream_headers("text/event-stream")]) ]

stream_response(self, rl, flask_request, a, uuid, ret) ==
    LET built == FlaskRLRequest__init__(flask_request, uuid)
        req == built.value
        branch == IF method(req) = "POST"
                  THEN stream_branch(self, rl, req, a, ret)
                  ELSE get_branch(self, rl, req, a, ret)
    IN  IF built.kind = "raise"
        THEN [calls |-> wrap_request(flask_request), outcome |-> built]
        ELSE [calls |-> wrap_request(flask_request) \o branch.calls, outcome |-> branch.outcome]

----------------------------------------------------------------------------
(* json_encoder.py: CustomJSONProvider *)

\* Python values an attribute of an object holds, tagged with their type
PyNone == [t |-> "NoneType"]
PyInt(n) == [t |-> "int", int |-> n]
PyBool(b) == [t |-> "bool", bool |-> b]
PyStr(s) == [t |-> "str", str |-> s]
PyList(l) == [t |-> "list", list |-> l]

\* An object with the attributes given: its __dict__
Object(cls, attrs) == [cls |-> cls, __dict__ |-> Some(attrs)]

\* An object of a type without __dict__ (a str, an int, object())
Slotted(cls) == [cls |-> cls, __dict__ |-> None]

hasattr__dict__(obj) == obj.__dict__ # None

\* The objects handed to _default in the model: the object of the test, one
\* whose attributes are None or falsy, one without attributes, a str.
PyObjects ==
    { Object("TestObject", [name |-> PyStr("test"), value |-> PyInt(123), none_value |-> PyNone]),
      Object("Falsy", [zero |-> PyInt(0), flag |-> PyBool(FALSE), empty |-> PyStr(""),
                       items |-> PyList(<<>>), missing |-> PyNone]),
      Object("Empty", EmptyDict),
      Slotted("str") }

\* `kwargs[key] = value`: the caller's value replaced
setdefault_overwrites(d, key, value) ==
    [k \in DOMAIN d \cup {key} |-> IF k = key THEN value ELSE d[k]]

\* dict.setdefault(key, value): a key the dict has keeps its value
setdefault(d, key, value) ==
    IF key \in DOMAIN d THEN d ELSE d @@ (key :> value)

\* The keywords json.dumps receives from CustomJSONProvider.dumps; the bound
\* method self._default is modelled by its name.
dumps_kwargs(kwargs) ==
    setdefault(setdefault(kwargs, "skipkeys", TRUE), "default", "self._default")

\* CustomJSONProvider.dumps(obj, **kwargs); ret is what json.dumps returns.
dumps(obj, kwargs, ret) ==
    [ calls   |-> << [fn |-> "json.dumps", obj |-> obj, kwargs |-> dumps_kwargs(kwargs)] >>,
      outcome |-> Returned(ret) ]

\* super()._default(obj): left to the base class JSONProvider
super_default(obj) == [kind |-> "super", fn |-> "_default", obj |-> obj]

\* every falsy attribute dropped, not only the None ones
_default_drops_falsy(obj) ==
    IF hasattr__dict__(obj)
    THEN LET d == The(obj.__dict__)
             truthy(v) == CASE v.t = "NoneType" -> FALSE
                            [] v.t = "int"      -> v.int # 0
                            [] v.t = "bool"     -> v.bool
                            [] v.t = "str"      -> v.str # ""
                            [] v.t = "list"     -> v.list # <<>>
         IN  Returned([k \in {x \in DOMAIN d : truthy(d[x])} |-> d[k]])
    ELSE super_default(obj)

\* CustomJSONProvider._default(obj)
_default(obj) ==
    IF hasattr__dict__(obj)
    THEN LET d == The(obj.__dict__)
         IN  Returned([k \in {x \in DOMAIN d : d[x].t # "NoneType"} |-> d[k]])
    ELSE super_default(obj)

\* The keywords a caller passes to dumps in the model.
DumpsKwargs ==
    { EmptyDict,
      [indent |-> 2, sort_keys |-> TRUE],
      [skipkeys |-> FALSE, default |-> "custom_default"],
      [default |-> "custom_default", indent |-> 2] }

----------------------------------------------------------------------------
(* The state machine *)

Init ==
    /\ ctor \in CtorArgs
    /\ adapter = RouteLitFlaskAdapter__init__(ctor)
    /\ \E d \in Deployments :
          /\ routelit = RouteLit(d.paths)
          /\ app = FlaskApp(d.loader)
    /\ uuids = 0
    /\ configures = 0
    /\ rlreq = None
    /\ last = [op |-> "none"]

\* adapter.configure(flask_app)
Configure ==
    /\ configures < MaxConfigure
    /\ LET r == configure(adapter, routelit, app)
       IN  /\ app' = r.app
           /\ last' = [op |-> "configure", app_before |-> app, outcome |-> r.outcome]
    /\ configures' = configures + 1
    /\ UNCHANGED <<ctor, adapter, routelit, uuids, rlreq>>

\* The FlaskRLRequest the model holds after `req = FlaskRLRequest(request)`:
\* the new object, or the one held before when the constructor raised.
built_request(held, flask_request, uuid) ==
    LET built == FlaskRLRequest__init__(flask_request, uuid)
    IN  IF built.kind = "raise" THEN held ELSE Some(built.value)

\* A view calls adapter.response(view_fn, should_inject_builder, *args, **kwargs)
\* while Flask handles flask_request.
Response ==
    /\ uuids < MaxRequests
    /\ \E flask_request \in FlaskRequests, a \in CallArgs, ret \in RouteLitReturns :
          LET r == response(adapter, routelit, flask_request, a, uuid4(uuids), ret)
          IN  /\ last' = [op |-> "response", flask_request |-> flask_request, a |-> a,
                          uuid |-> uuid4(uuids), ret |-> ret,
                          calls |-> r.calls, outcome |-> r.outcome]
              /\ rlreq' = built_request(rlreq, flask_request, uuid4(uuids))
    /\ uuids' = uuids + 1
    /\ UNCHANGED <<ctor, adapter, routelit, app, configures>>

\* A view calls adapter.stream_response(...) while Flask handles flask_request.
StreamResponse ==
    /\ uuids < MaxRequests
    /\ \E flask_request \in FlaskRequests, a \in CallArgs, ret \in RouteLitReturns :
          LET r == stream_response(adapter, routelit, flask_request, a, uuid4(uuids), ret)
          IN  /\ last' = [op |-> "stream_response", flask_request |-> flask_request, a |-> a,
                          uuid |-> uuid4(uuids), ret |-> ret,
                          calls |-> r.calls, outcome |-> r.outcome]
              /\ rlreq' = built_request(rlreq, flask_request, uuid4(uuids))
    /\ uuids' = uuids + 1
    /\ UNCHANGED <<ctor, adapter, routelit, app, configures>>

\* adapter._handle_get_request(view_fn, request, **kwargs) called with a
\* request object of the caller's.
HandleGetRequest ==
    /\ \E request \in OtherRLRequests, a \in CallArgs, ret \in RouteLitReturns :
          LET r == _handle_get_request(adapter, routelit, a.view_fn, request, a.kwargs, ret)
          IN  last' = [op |-> "_handle_get_request", request |-> request, a |-> a, ret |-> ret,
                       calls |-> r.calls, outcome |-> r.outcome]
    /\ UNCHANGED <<ctor, adapter, routelit, app, uuids, configures, rlreq>>

\* The holder of the FlaskRLRequest (RouteLit, during a handler) calls
\* get_session_id() on it; `previous` is the outcome of the call before, when
\* the last operation was such a call too.
GetSessionId ==
    /\ rlreq # None
    /\ last' = [op |-> "get_session_id", request |-> The(rlreq),
                previous |-> IF last.op = "get_session_id" THEN Some(last.outcome) ELSE None,
                outcome |-> get_session_id(The(rlreq))]
    /\ UNCHANGED <<ctor, adapter, routelit, app, uuids, configures, rlreq>>

\* Flask (jsonify, app.json) calls CustomJSONProvider.dumps(obj, **kwargs).
Dumps ==
    /\ \E kwargs \in DumpsKwargs :
          LET r == dumps([key |-> "value"], kwargs, "{\"key\": \"value\"}")
          IN  last' = [op |-> "dumps", obj |-> [key |-> "value"], kwargs |-> kwargs,
                       calls |-> r.calls, outcome |-> r.outcome]
    /\ UNCHANGED <<ctor, adapter, routelit, app, uuids, configures, rlreq>>

\* json.dumps meets an object it cannot serialise and calls the `default`
\* it was given, CustomJSONProvider._default(obj).
Default ==
    /\ \E obj \in PyObjects :
          last' = [op |-> "_default", obj |-> obj, outcome |-> _default(obj)]
    /\ UNCHANGED <<ctor, adapter, routelit, app, uuids, configures, rlreq>>

\* The holder of the FlaskRLRequest calls get_json() on it.
GetJson ==
    /\ rlreq # None
    /\ last' = [op |-> "get_json", request |-> The(rlreq), outcome |-> get_json(The(rlreq))]
    /\ UNCHANGED <<ctor, adapter, routelit, app, uuids, configures, rlreq>>

\* The holder of the FlaskRLRequest calls get_ui_event() on it.
GetUiEvent ==
    /\ rlreq # None
    /\ last' = [op |-> "get_ui_event", request |-> The(rlreq),
                outcome |-> Returned(get_ui_event(The(rlreq)))]
    /\ UNCHANGED <<ctor, adapter, routelit, app, uuids, configures, rlreq>>

\* The holder of the FlaskRLRequest calls clear_event() on it.
ClearEvent ==
    /\ rlreq # None
    /\ rlreq' = Some(clear_event(The(rlreq)))
    /\ last' = [op |-> "clear_event", request |-> The(rlreq), outcome |-> Returned(None)]
    /\ UNCHANGED <<ctor, adapter, routelit, app, uuids, configures>>

Next ==
    \/ Configure \/ Response \/ StreamResponse \/ HandleGetRequest
    \/ GetSessionId \/ GetJson \/ GetUiEvent \/ ClearEvent
    \/ Dumps \/ Default

Spec == Init /\ [][Next]_vars

----------------------------------------------------------------------------
(* Reading the last operation *)

\* The last operation was a handler, which left a trace of calls.
Handled == last.op \in {"response", "stream_response", "_handle_get_request"}

\* The calls of the last handler to fn, in order.
CallsTo(fn) == SelectSeq(last.calls, LAMBDA c : c.fn = fn)

\* The last handler went down the GET path.
GetPathRan == Handled /\ CallsTo("routelit.handle_get_request") # <<>>

\* The last handler returned a response from the GET path.
GetResponded == GetPathRan /\ last.outcome.kind = "return"

----------------------------------------------------------------------------
(* Claims *)

\* C1: for every run_mode, a non-empty cookie_config passed to the
\* constructor is adapter.cookie_config, and exactly those attributes are
\* passed to set_cookie on every GET response.
C1_CustomCookieConfigKept ==
    (ctor.cookie_config # None /\ The(ctor.cookie_config) # EmptyDict) =>
        /\ adapter.cookie_config = The(ctor.cookie_config)
        /\ GetResponded =>
              \A i \in DOMAIN CallsTo("response.set_cookie") :
                  CallsTo("response.set_cookie")[i].attrs = The(ctor.cookie_config)

C3_GetResponseSetsSessionCookie ==
    GetResponded =>
        LET handled == CallsTo("routelit.handle_get_request")
            set == CallsTo("response.set_cookie")
            made == CallsTo("make_response")
        IN  /\ Len(handled) = 1
            /\ Len(set) = 1
            /\ Len(made) = 1
            /\ set[1].key = "ROUTELIT_SESSION_ID"
            /\ get_session_id(handled[1].request) = Returned(set[1].value)
            /\ last.op = "_handle_get_request" =>
                  /\ handled[1].request = last.request
                  /\ set[1].value = last.request.session_id
            /\ set[1].attrs = adapter.cookie_config
            /\ last.outcome.value =
                  [ cls |-> "Response", page |-> made[1].page,
                    set_cookies |-> << [key |-> set[1].key, value |-> set[1].value,
                                        attrs |-> set[1].attrs] >> ]

\* A production adapter has answered a GET for a request whose session id is
\* "test_session_id".
C3_Witness ==
    /\ GetResponded
    /\ ctor.run_mode = "prod"
    /\ CallsTo("response.set_cookie")[1].value = "test_session_id"
    /\ CallsTo("response.set_cookie")[1].attrs # EmptyDict

\* C4: get_session_id() of a FlaskRLRequest returns the value of the incoming
\* ROUTELIT_SESSION_ID cookie when the request carries one, otherwise the
\* default id drawn when the object was constructed; a call that follows
\* another on the same object returns the same value.
C4_SessionIdFromCookieOrDefault ==
    last.op = "get_session_id" =>
        LET cookies == last.request.request.cookies
        IN  /\ last.outcome.kind = "return"
            /\ last.outcome.value =
                  IF "ROUTELIT_SESSION_ID" \in DOMAIN cookies
                  THEN cookies["ROUTELIT_SESSION_ID"]
                  ELSE last.request.default_session_id
            /\ last.previous # None => The(last.previous) = last.outcome

\* C5: for a POST request, response() calls routelit.handle_post_request
\* exactly once with (view_fn, the FlaskRLRequest wrapping the Flask request,
\* should_inject_builder, *args, **kwargs) as given, and returns jsonify of
\* the actions that call returned; no other RouteLit handler is called.
C5_PostResponseForwards ==
    (last.op = "response" /\ last.flask_request.method = "POST") =>
        LET posted == CallsTo("routelit.handle_post_request")
        IN  /\ Len(posted) = 1
            /\ posted[1].view_fn = last.a.view_fn
            /\ posted[1].request.cls = "FlaskRLRequest"
            /\ posted[1].request.request = last.flask_request
            /\ posted[1].should_inject_builder = last.a.should_inject_builder
            /\ posted[1].args = last.a.args
            /\ posted[1].kwargs = last.a.kwargs
            /\ CallsTo("jsonify") = << [fn |-> "jsonify", actions |-> last.ret.post] >>
            /\ last.outcome = Returned([cls |-> "Response", json |-> last.ret.post])
            /\ CallsTo("routelit.handle_post_request_stream_jsonl") = <<>>
            /\ CallsTo("routelit.handle_get_request") = <<>>

\* response() has answered a POST that came with positional and keyword
\* arguments and should_inject_builder=True.
C5_Witness ==
    /\ last.op = "response"
    /\ last.flask_request.method = "POST"
    /\ last.a.should_inject_builder = Some(TRUE)
    /\ last.a.args = <<"arg1", "arg2">>
    /\ last.outcome.kind = "return"
    /\ last.outcome.value.json = <<"action1", "action2">>

\* C6: for a POST request, stream_response() calls
\* routelit.handle_post_request_stream_jsonl exactly once with the same
\* arguments as given, passes its generator through stream_with_context into a
\* Response built with mimetype "text/event-stream", and the Content-Type
\* header of the response returned is "application/jsonlines".
C6_PostStreamForwards ==
    (last.op = "stream_response" /\ last.flask_request.method = "POST") =>
        LET posted == CallsTo("routelit.handle_post_request_stream_jsonl")
        IN  /\ Len(posted) = 1
            /\ posted[1].view_fn = last.a.view_fn
            /\ posted[1].request.cls = "FlaskRLRequest"
            /\ posted[1].request.request = last.flask_request
            /\ posted[1].should_inject_builder = last.a.should_inject_builder
            /\ posted[1].args = last.a.args
            /\ posted[1].kwargs = last.a.kwargs
            /\ CallsTo("stream_with_context") =
                  << [fn |-> "stream_with_context", generator |-> last.ret.stream] >>
            /\ CallsTo("Response") =
                  << [fn |-> "Response", stream |-> last.ret.stream,
                      mimetype |-> "text/event-stream"] >>
            /\ last.outcome.kind = "return"
            /\ last.outcome.value.stream = last.ret.stream
            /\ last.outcome.value.headers["Content-Type"] = "application/jsonlines"
            /\ CallsTo("routelit.handle_post_request") = <<>>
            /\ CallsTo("routelit.handle_get_request") = <<>>

\* stream_response() has answered a POST that came with positional and
\* keyword arguments.
C6_Witness ==
    /\ last.op = "stream_response"
    /\ last.flask_request.method = "POST"
    /\ last.a.args = <<"arg1", "arg2">>
    /\ last.outcome.kind = "return"
    /\ last.outcome.value.stream = "jsonl_generator_1"

\* C7: for a request whose method is not "POST", response() and
\* stream_response() do the same: each calls _handle_get_request exactly once
\* with the wrapped request and ends as that call ends, and neither calls
\* handle_post_request nor handle_post_request_stream_jsonl.
C7_NonPostTakesGetPath ==
    (last.op \in {"response", "stream_response"} /\ last.flask_request.method # "POST") =>
        LET got == CallsTo("_handle_get_request")
            req == FlaskRLRequest__init__(last.flask_request, last.uuid).value
            direct == _handle_get_request(adapter, routelit, last.a.view_fn, req,
                                          last.a.kwargs, last.ret)
        IN  /\ Len(got) = 1
            /\ got[1].view_fn = last.a.view_fn
            /\ got[1].request = req
            /\ got[1].kwargs = last.a.kwargs
            /\ last.outcome = direct.outcome
            /\ Len(CallsTo("routelit.handle_get_request")) = 1
            /\ CallsTo("routelit.handle_post_request") = <<>>
            /\ CallsTo("routelit.handle_post_request_stream_jsonl") = <<>>
            /\ response(adapter, routelit, last.flask_request, last.a, last.uuid, last.ret)
                  = stream_response(adapter, routelit, last.flask_request, last.a,
                                    last.uuid, last.ret)

\* stream_response() has handled a HEAD request down the GET path.
C7_Witness ==
    /\ last.op = "stream_response"
    /\ last.flask_request.method = "HEAD"
    /\ Len(CallsTo("_handle_get_request")) = 1

\* The package names of the asset targets are pairwise distinct.
DistinctPackages(targets) ==
    \A i, j \in DOMAIN targets :
        i # j => targets[i].package_name # targets[j].package_name

\* C8: a configure(flask_app) that returned added to the URL map, after the
\* rules it had, the rule "/routelit/<package_name>/<path:filename>" of each
\* asset target, in order, and then "/routelit/assets/<path:filename>": n + 1
\* rules for n targets.  The first configure of an application whose targets
\* have distinct package names does return.
C8_ConfigureAddsAssetRules ==
    last.op = "configure" =>
        LET targets == routelit.client_resource_paths
            n == Len(targets)
            before == last.app_before.url_map
        IN  /\ (configures = 1 /\ DistinctPackages(targets)) => last.outcome.kind = "return"
            /\ last.outcome.kind = "return" =>
                  /\ Len(app.url_map) = Len(before) + n + 1
                  /\ SubSeq(app.url_map, 1, Len(before)) = before
                  /\ \A i \in 1..n :
                        app.url_map[Len(before) + i].rule =
                            "/routelit/" \o targets[i].package_name \o "/<path:filename>"
                  /\ app.url_map[Len(before) + n + 1].rule = "/routelit/assets/<path:filename>"

\* configure() has returned on an application with three asset targets.
C8_Witness ==
    /\ last.op = "configure"
    /\ last.outcome.kind = "return"
    /\ Len(routelit.client_resource_paths) = 3
    /\ Len(app.url_map) = Len(last.app_before.url_map) + 4

\* C9: configure(flask_app) never removes or reorders a template loader.  When
\* it returns, a ChoiceLoader the application had is the same object with the
\* RouteLit FileSystemLoader appended to its loaders; any other loader is
\* replaced by a new ChoiceLoader [previous loader, RouteLit FileSystemLoader].
\* When it raises, the loader is as it was.
C9_ConfigureKeepsLoaders ==
    last.op = "configure" =>
        LET before == last.app_before.jinja_loader
            after == app.jinja_loader
            routelit_loader == [cls |-> "FileSystemLoader", searchpath |-> ctor.template_path]
        IN  IF last.outcome.kind = "return"
            THEN /\ after.cls = "ChoiceLoader"
                 /\ IF before.cls = "ChoiceLoader"
                    THEN /\ after.oid = before.oid
                         /\ after.loaders = before.loaders \o <<routelit_loader>>
                    ELSE /\ after.oid # "app"
                         /\ after.loaders = <<before, routelit_loader>>
            ELSE after = before

\* configure() has returned on an application whose loader was a ChoiceLoader
\* of two loaders.
C9_Witness ==
    /\ last.op = "configure"
    /\ last.outcome.kind = "return"
    /\ last.app_before.jinja_loader.cls = "ChoiceLoader"
    /\ Len(last.app_before.jinja_loader.loaders) = 2
    /\ Len(app.jinja_loader.loaders) = 3

\* C10: the GET path renders "index.html" exactly once, with exactly the
\* variables ROUTELIT_DATA, PAGE_TITLE, PAGE_DESCRIPTION (from the RouteLit
\* response), RUN_MODE, LOCAL_FRONTEND_SERVER, LOCAL_COMPONENTS_SERVER (the
\* constructor's values), default_vite_assets and vite_assets (from RouteLit).
C10_GetRendersIndexOnce ==
    GetPathRan =>
        LET render == CallsTo("render_template")
        IN  /\ Len(render) = 1
            /\ render[1].template = "index.html"
            /\ render[1].context =
                  [ ROUTELIT_DATA           |-> last.ret.get.elements,
                    PAGE_TITLE              |-> last.ret.get.head.title,
                    PAGE_DESCRIPTION        |-> last.ret.get.head.description,
                    RUN_MODE                |-> ctor.run_mode,
                    LOCAL_FRONTEND_SERVER   |-> ctor.local_frontend_server,
                    LOCAL_COMPONENTS_SERVER |-> ctor.local_components_server,
                    default_vite_assets     |-> routelit.default_client_assets,
                    vite_assets             |-> routelit.client_assets ]

\* response() has taken a GET down the GET path of a dev_client adapter that
\* was given both development servers.
C10_Witness ==
    /\ GetPathRan
    /\ last.op = "response"
    /\ last.flask_request.method = "GET"
    /\ ctor.run_mode = "dev_client"
    /\ ctor.local_frontend_server = Some("http://localhost:3000")
    /\ CallsTo("render_template")[1].context.PAGE_TITLE = "Test Title"

----------------------------------------------------------------------------
(* C11: configure() binds the JSON provider and returns the adapter *)

\* C11: a configure(flask_app) that returns, returns the adapter it was called
\* on, and the application's json_provider_class is CustomJSONProvider then.
C11_ConfigureReturnsSelf ==
    (last.op = "configure" /\ last.outcome.kind = "return") =>
        /\ last.outcome.value = adapter
        /\ app.json_provider_class = "CustomJSONProvider"

\* a first configure() of an application with Flask's default provider returned
C11_Witness ==
    /\ last.op = "configure"
    /\ last.outcome = Returned(adapter)
    /\ last.app_before.json_provider_class = "DefaultJSONProvider"
    /\ app.json_provider_class = "CustomJSONProvider"

----------------------------------------------------------------------------
(* C12, C13: the JSON provider *)

\* C12: dumps(obj, **kwargs) calls json.dumps exactly once, with obj, with
\* every keyword of the caller unchanged, and with skipkeys=True and
\* default=self._default where the caller gave no such keyword; json.dumps's
\* result is returned.
C12_DumpsDefaultsKeywords ==
    (last.op = "dumps") =>
        /\ Len(last.calls) = 1
        /\ last.calls[1].fn = "json.dumps"
        /\ last.calls[1].obj = last.obj
        /\ LET given == last.kwargs
               passed == last.calls[1].kwargs
           IN  /\ DOMAIN passed = DOMAIN given \cup {"skipkeys", "default"}
               /\ \A k \in DOMAIN given : passed[k] = given[k]
               /\ "skipkeys" \notin DOMAIN given => passed["skipkeys"] = TRUE
               /\ "default" \notin DOMAIN given => passed["default"] = "self._default"
        /\ last.outcome.kind = "return"

\* dumps was called with a skipkeys and a default of the caller's, and they
\* reached json.dumps
C12_Witness ==
    /\ last.op = "dumps"
    /\ {"skipkeys", "default"} \subseteq DOMAIN last.kwargs
    /\ last.calls[1].kwargs["skipkeys"] = FALSE
    /\ last.calls[1].kwargs["default"] = "custom_default"

\* C13: for an object with __dict__, _default returns a dict of exactly the
\* attributes whose value is not None, each with its value; 0, False, "" and
\* [] are kept.
C13_DefaultDropsOnlyNone ==
    (last.op = "_default" /\ hasattr__dict__(last.obj)) =>
        LET d == The(last.obj.__dict__)
        IN  /\ last.outcome.kind = "return"
            /\ DOMAIN last.outcome.value = {k \in DOMAIN d : d[k] # PyNone}
            /\ \A k \in DOMAIN last.outcome.value : last.outcome.value[k] = d[k]

\* _default answered for an object holding None beside 0, False, "" and []
C13_Witness ==
    /\ last.op = "_default"
    /\ hasattr__dict__(last.obj)
    /\ DOMAIN The(last.obj.__dict__) = {"zero", "flag", "empty", "items", "missing"}
    /\ last.outcome = Returned([zero |-> PyInt(0), flag |-> PyBool(FALSE),
                                empty |-> PyStr(""), items |-> PyList(<<>>)])

----------------------------------------------------------------------------
(* C14, C16: the request wrapper and the request body *)

\* C14: the wrapper does not validate the body.  Of a request that is not
\* JSON, FlaskRLRequest(request) is built without reading request.json (the
\* entry point goes on past the constructor), get_json() returns None and
\* get_ui_event() returns None; of a JSON request, get_json() returns the
\* body Flask parsed, unchanged.
C14_NoBodyValidation ==
    /\ (last.op \in {"response", "stream_response"} /\ ~last.flask_request.is_json) =>
          /\ rlreq # None
          /\ The(rlreq).request = last.flask_request
          /\ The(rlreq).default_session_id = last.uuid
          /\ The(rlreq).ui_event = None
          /\ Len(last.calls) > 1
    /\ (last.op = "get_json") =>
          IF last.request.request.is_json
          THEN last.outcome = Returned(The(last.request.request.json))
          ELSE last.outcome = Returned(None)
    /\ (last.op = "get_ui_event" /\ ~last.request.request.is_json) =>
          last.outcome = Returned(None)

\* get_json() returned None on the wrapper of a request that is not JSON
C14_Witness ==
    /\ last.op = "get_json"
    /\ ~last.request.request.is_json
    /\ last.request.request.json = None
    /\ last.outcome = Returned(None)

\* The wrapper held before and after a step is the same object
SameWrapper == rlreq # None /\ rlreq' # None /\
               The(rlreq).default_session_id = The(rlreq').default_session_id

\* C16: the UI event is read once, at construction, from "ui_event" of the
\* JSON body (None otherwise); get_ui_event() returns the value held; only
\* clear_event() changes it, to None, and it stays None; clear_event()
\* changes nothing else of the wrapper (the wrapped request, get_json(),
\* get_session_id(), method).
C16_UiEventUntilCleared ==
    [][ rlreq' # None =>
          IF SameWrapper
          THEN /\ The(rlreq').request = The(rlreq).request
               /\ The(rlreq').ui_event = IF last'.op = "clear_event" THEN None
                                          ELSE The(rlreq).ui_event
               /\ last'.op = "get_ui_event" => last'.outcome = Returned(The(rlreq).ui_event)
               /\ last'.op = "clear_event" =>
                     /\ get_json(The(rlreq')) = get_json(The(rlreq))
                     /\ get_session_id(The(rlreq')) = get_session_id(The(rlreq))
                     /\ method(The(rlreq')) = method(The(rlreq))
          ELSE The(rlreq').ui_event =
                  IF The(rlreq').request.is_json
                  THEN body_ui_event(The(The(rlreq').request.json))
                  ELSE None
      ]_vars

\* get_ui_event() returned None on the wrapper of a request whose body has
\* a "ui_event": clear_event() came before
C16_Witness ==
    /\ last.op = "get_ui_event"
    /\ last.request.request.is_json
    /\ "ui_event" \in DOMAIN The(last.request.request.json)
    /\ last.outcome = Returned(None)

----------------------------------------------------------------------------
(* C15, C17, C18: the session cookie across requests *)

\* C15: the adapter never rotates the session id.  A request that is not a
\* POST and carries the ROUTELIT_SESSION_ID cookie a response set earlier is
\* answered with a response that sets the cookie to that same value, and
\* get_session_id() of its wrapper, which RouteLit reads, is that value too;
\* a request without the cookie is answered with the id drawn for it.
C15_SessionIdNeverRotates ==
    (last.op \in {"response", "stream_response"} /\ last.flask_request.method # "POST") =>
        LET session_id == DictGet(last.flask_request.cookies, "ROUTELIT_SESSION_ID", last.uuid)
        IN  /\ last.outcome.kind = "return"
            /\ Len(last.outcome.value.set_cookies) = 1
            /\ last.outcome.value.set_cookies[1].key = "ROUTELIT_SESSION_ID"
            /\ last.outcome.value.set_cookies[1].value = session_id
            /\ get_session_id(The(rlreq)) = Returned(session_id)

\* C17: get_session_id() reads the cookie under the name _handle_get_request
\* writes it under, "ROUTELIT_SESSION_ID": the name request.py imports is the
\* name adapter.py imports, and a request carrying a cookie of that name has
\* its value as session id.
C17_SameCookieName ==
    (last.op = "get_session_id"
     /\ COOKIE_SESSION_KEY \in DOMAIN last.request.request.cookies) =>
        /\ COOKIE_SESSION_KEY = "ROUTELIT_SESSION_ID"
        /\ request_COOKIE_SESSION_KEY = Returned(COOKIE_SESSION_KEY)
        /\ last.outcome = Returned(last.request.request.cookies[COOKIE_SESSION_KEY])

\* C18: a POST handled by response() or stream_response() sets no cookie and
\* renders no template, and a response that sets the session cookie comes
\* from the GET path; a POST without the cookie has as session id the id
\* drawn for its wrapper, which no response carries and which differs from
\* the id drawn for every earlier request.
C18_PostSetsNoCookie ==
    /\ (last.op \in {"response", "stream_response"} /\ last.flask_request.method = "POST") =>
          /\ CallsTo("response.set_cookie") = <<>>
          /\ CallsTo("render_template") = <<>>
          /\ last.outcome.kind = "return"
          /\ "set_cookies" \notin DOMAIN last.outcome.value
    /\ (Handled /\ CallsTo("response.set_cookie") # <<>>) => GetPathRan
    /\ (last.op = "get_session_id" /\ last.request.request.method = "POST"
        /\ "ROUTELIT_SESSION_ID" \notin DOMAIN last.request.request.cookies) =>
          /\ last.outcome = Returned(last.request.default_session_id)
          /\ \A n \in 0..(uuids - 1) :
                uuid4(n) = last.request.default_session_id => n = uuids - 1

----------------------------------------------------------------------------
(* C19: what the GET path forwards *)

----------------------------------------------------------------------------
(* C20: every asset route serves its own directory *)

\* C20: after a configure() that returned, the endpoint
\* assets_static_<package_name> of every asset target serves the directory
\* <package_name>/<path> of that target and stands behind the rule
\* /routelit/<package_name>/<path:filename>; endpoints and directories of
\* targets of different packages differ; no such endpoint is
\* routelit_assets_static, which serves <static_path>/assets.
C20_AssetRoutesServeOwnDirectory ==
    (last.op = "configure" /\ last.outcome.kind = "return") =>
        LET targets == routelit.client_resource_paths
            endpoint(t) == "assets_static_" \o t.package_name
            directory(t) == t.package_name \o "/" \o t.path
        IN  /\ \A i \in DOMAIN targets :
                  /\ endpoint(targets[i]) \in DOMAIN app.view_functions
                  /\ app.view_functions[endpoint(targets[i])] = directory(targets[i])
                  /\ endpoint(targets[i]) # "routelit_assets_static"
                  /\ \E k \in DOMAIN app.url_map :
                        app.url_map[k] =
                            [rule     |-> "/routelit/" \o targets[i].package_name
                                          \o "/<path:filename>",
                             endpoint |-> endpoint(targets[i])]
                  /\ \A j \in DOMAIN targets :
                        targets[j].package_name # targets[i].package_name =>
                            /\ endpoint(targets[j]) # endpoint(targets[i])
                            /\ app.view_functions[endpoint(targets[i])] # directory(targets[j])
            /\ app.view_functions["routelit_assets_static"] = adapter.static_path \o "/assets"

\* configure() has returned with the routes of package1 and package2, each
\* serving its own directory
C20_Witness ==
    /\ last.op = "configure"
    /\ last.outcome.kind = "return"
    /\ {"assets_static_package1", "assets_static_package2"} \subseteq DOMAIN app.view_functions
    /\ app.view_functions["assets_static_package1"] = "package1/static/assets1"
    /\ app.view_functions["assets_static_package2"] = "package2/static/assets2"

====
